---- MODULE Spec2Model ----
(***************************************************************************)
(* pull-request-title-validator: the title parser (splitTitle,             *)
(* extractTypeAndScope), the rule validators (checkAgainstConventionTypes, *)
(* checkAgainstScopes), the list parsers (parseTypes, parseScopes) and the *)
(* one-shot run of main.                                                   *)
(*                                                                         *)
(* A Go string is a sequence of one-character strings: "fix" is            *)
(* <<"f","i","x">>.  Go's 0-based byte offsets become 1-based positions.   *)
(***************************************************************************)
EXTENDS Integers, Sequences, FiniteSets, TLC

VARIABLES environ, eventFile, cfg, pc, title, titleType, titleScope,
          titleMessage, parsedTypes, parsedScope, typeErr, scopeErr,
          exit, log, call, ret

vars == <<environ, eventFile, cfg, pc, title, titleType, titleScope,
          titleMessage, parsedTypes, parsedScope, typeErr, scopeErr,
          exit, log, call, ret>>

mainVars == <<environ, eventFile, cfg, pc, title, titleType, titleScope,
              titleMessage, parsedTypes, parsedScope, typeErr, scopeErr,
              exit, log>>

(***************************************************************************)
(* Bounds of the checked instances.                                        *)
(***************************************************************************)
MaxTitleLen == 6

MaxPrefixLen == 6

MaxTypeLen == 2

MaxTypesInputLen == 4

MaxScopeLen == 2

MaxScopeInputLen == 4

MaxListInputLen == 5

(***************************************************************************)
(* All strings over alphabet A of length at most n.                        *)
(***************************************************************************)
Str(A, n) == {<<>>} \cup UNION {[1..k -> A] : k \in 1..n}

(***************************************************************************)
(* Go standard library, package strings.                                   *)
(***************************************************************************)
\* unicode.IsSpace restricted to the characters the model draws from
IsSpace(c) == c = " "

\* strings.Index(s, sep) for a one-character sep; 0 stands for Go's -1
Index(s, sep) ==
    IF \E i \in 1..Len(s) : s[i] = sep
    THEN CHOOSE i \in 1..Len(s) : s[i] = sep /\ \A j \in 1..(i - 1) : s[j] # sep
    ELSE 0

\* strings.Contains(s, sep) for a one-character sep
Contains(s, sep) == Index(s, sep) # 0

\* Cut at the last occurrence of sep instead of the first
CutAtLast(s, sep) ==
    IF \E i \in 1..Len(s) : s[i] = sep
    THEN LET i == CHOOSE k \in 1..Len(s) :
                      s[k] = sep /\ \A j \in (k + 1)..Len(s) : s[j] # sep
         IN  [before |-> SubSeq(s, 1, i - 1),
              after  |-> SubSeq(s, i + 1, Len(s)),
              found  |-> TRUE]
    ELSE [before |-> s, after |-> <<>>, found |-> FALSE]

\* strings.Cut(s, sep): (before, after, found)
Cut(s, sep) ==
    LET i == Index(s, sep)
    IN  IF i = 0
        THEN [before |-> s, after |-> <<>>, found |-> FALSE]
        ELSE [before |-> SubSeq(s, 1, i - 1),
              after  |-> SubSeq(s, i + 1, Len(s)),
              found  |-> TRUE]

RECURSIVE TrimLeft(_)
TrimLeft(s) ==
    IF s # <<>> /\ IsSpace(Head(s)) THEN TrimLeft(Tail(s)) ELSE s

RECURSIVE TrimRight(_)
TrimRight(s) ==
    IF s # <<>> /\ IsSpace(s[Len(s)])
    THEN TrimRight(SubSeq(s, 1, Len(s) - 1))
    ELSE s

\* strings.TrimSpace(s)
TrimSpace(s) == TrimRight(TrimLeft(s))

\* strings.Split(s, sep) for a one-character sep
RECURSIVE Split(_, _)
Split(s, sep) ==
    LET c == Cut(s, sep)
    IN  IF c.found THEN <<c.before>> \o Split(c.after, sep) ELSE <<s>>

(***************************************************************************)
(* scopeRegex := regexp.MustCompile(`\(([^)]+)\)`) and                     *)
(* scopeRegex.FindStringSubmatch(prefix): the leftmost "(" that is         *)
(* followed by one or more characters other than ")" and then by ")".      *)
(* The result is <<whole match, group 1>>, or <<>> (Go's nil) when the     *)
(* expression matches nowhere.                                             *)
(***************************************************************************)
\* position of the ")" closing a match that starts at i, or 0
ScopeMatchEnd(s, i) ==
    IF s[i] # "("
    THEN 0
    ELSE LET j == Index(SubSeq(s, i + 1, Len(s)), ")")
         IN  IF j >= 2 THEN i + j ELSE 0

\* the expression written with * for +: `\(([^)]*)\)`
FindStringSubmatchStar(s) ==
    IF \E i \in 1..Len(s) :
           s[i] = "(" /\ \E j \in (i + 1)..Len(s) : s[j] = ")"
    THEN LET i == CHOOSE k \in 1..Len(s) :
                      /\ s[k] = "(" /\ \E j \in (k + 1)..Len(s) : s[j] = ")"
                      /\ \A m \in 1..(k - 1) :
                             ~(s[m] = "(" /\ \E j \in (m + 1)..Len(s) : s[j] = ")")
             j == i + Index(SubSeq(s, i + 1, Len(s)), ")")
         IN  <<SubSeq(s, i, j), SubSeq(s, i + 1, j - 1)>>
    ELSE <<>>

FindStringSubmatch(s) ==
    IF \E i \in 1..Len(s) : ScopeMatchEnd(s, i) # 0
    THEN LET i == CHOOSE k \in 1..Len(s) :
                      /\ ScopeMatchEnd(s, k) # 0
                      /\ \A m \in 1..(k - 1) : ScopeMatchEnd(s, m) = 0
             j == ScopeMatchEnd(s, i)
         IN  <<SubSeq(s, i, j), SubSeq(s, i + 1, j - 1)>>
    ELSE <<>>

(***************************************************************************)
(* Title parser.                                                           *)
(***************************************************************************)
\* the type always ends at the first "(", closed parenthetical or not
extractTypeAndScopeCutAtParen(rawPrefix) ==
    LET prefix  == TrimSpace(rawPrefix)
        matches == FindStringSubmatch(prefix)
    IN  IF Contains(prefix, "(")
        THEN [titleType  |-> TrimSpace(Split(prefix, "(")[1]),
              titleScope |-> IF Len(matches) > 1 THEN matches[2] ELSE <<>>]
        ELSE [titleType |-> prefix, titleScope |-> <<>>]

\* the type is the prefix with the parenthetical taken out
extractTypeAndScopeKeepRest(rawPrefix) ==
    LET prefix  == TrimSpace(rawPrefix)
        matches == FindStringSubmatch(prefix)
        before  == Split(prefix, "(")[1]
    IN  IF Contains(prefix, "(") /\ Contains(prefix, ")") /\ Len(matches) > 1
        THEN [titleType  |-> TrimSpace(before \o
                                 SubSeq(prefix,
                                        Len(before) + Len(matches[1]) + 1,
                                        Len(prefix))),
              titleScope |-> matches[2]]
        ELSE [titleType |-> prefix, titleScope |-> <<>>]

extractTypeAndScope(rawPrefix) ==
    LET prefix  == TrimSpace(rawPrefix)
        matches == FindStringSubmatch(prefix)
    IN  IF Contains(prefix, "(") /\ Contains(prefix, ")") /\ Len(matches) > 1
        THEN [titleType  |-> TrimSpace(Split(prefix, "(")[1]),
              titleScope |-> matches[2]]
        ELSE [titleType |-> prefix, titleScope |-> <<>>]

\* splitTitle without the check of found: a title without ":" is all prefix
splitTitleNoSeparatorCheck(t) ==
    LET c  == Cut(t, ":")
        ts == extractTypeAndScope(c.before)
    IN  IF ts.titleType = <<>>
        THEN [err |-> "MissingType"]
        ELSE [err          |-> "none",
              titleType    |-> ts.titleType,
              titleScope   |-> ts.titleScope,
              titleMessage |-> TrimSpace(c.after)]

\* splitTitle without the check of the type
splitTitleNoTypeCheck(t) ==
    LET c  == Cut(t, ":")
        ts == extractTypeAndScope(c.before)
    IN  IF ~c.found
        THEN [err |-> "MissingSeparator"]
        ELSE [err          |-> "none",
              titleType    |-> ts.titleType,
              titleScope   |-> ts.titleScope,
              titleMessage |-> TrimSpace(c.after)]

\* os.Exit(1) inside splitTitle is the err field; "none" is a normal return
splitTitle(t) ==
    LET c  == Cut(t, ":")
        ts == extractTypeAndScope(c.before)
    IN  IF ~c.found
        THEN [err |-> "MissingSeparator"]
        ELSE IF ts.titleType = <<>>
        THEN [err |-> "MissingType"]
        ELSE [err          |-> "none",
              titleType    |-> ts.titleType,
              titleScope   |-> ts.titleScope,
              titleMessage |-> TrimSpace(c.after)]

(***************************************************************************)
(* Go standard library, package regexp, for the expressions               *)
(* checkAgainstScopes builds: "(?i)" + scope + "$".  The source is the     *)
(* pattern followed by "$", read under the flag i.  Supported syntax:      *)
(* literal characters, "." (any character but newline), a postfix "+",     *)
(* "|" and "$".  "|" binds weakest, so the appended "$" belongs to the     *)
(* last alternative only.                                                  *)
(***************************************************************************)
\* simple case folding under (?i), for the letters the model draws from
Fold(c) ==
    CASE c = "A" -> "a"
      [] c = "B" -> "b"
      [] c = "C" -> "c"
      [] OTHER -> c

\* syntax.Parse under the Perl flags: "+" needs an operand (missing argument
\* to repetition operator) and may not follow another "+" (invalid nested
\* repetition operator); MustCompile panics on such a source
CompileOk(src) ==
    \A i \in 1..Len(src) :
        src[i] = "+" => (i > 1 /\ src[i - 1] \notin {"+", "|"})

\* one alternative as a sequence of items [atom, plus]
RECURSIVE Items(_)
Items(alt) ==
    IF alt = <<>>
    THEN <<>>
    ELSE IF Len(alt) >= 2 /\ alt[2] = "+"
    THEN <<[atom |-> alt[1], plus |-> TRUE]>> \o Items(SubSeq(alt, 3, Len(alt)))
    ELSE <<[atom |-> alt[1], plus |-> FALSE]>> \o Items(Tail(alt))

\* the compiled program: the alternatives of the source, in order
Compile(src) ==
    LET alts == Split(src, "|")
    IN  [k \in 1..Len(alts) |-> Items(alts[k])]

AtomMatches(atom, c) ==
    IF atom = "." THEN c # "\n" ELSE Fold(atom) = Fold(c)

\* the items match s starting after its first i characters
RECURSIVE MatchHere(_, _, _)
MatchHere(items, s, i) ==
    IF items = <<>>
    THEN TRUE
    ELSE LET it == Head(items)
         IN  IF it.atom = "$"
             THEN i = Len(s) /\ MatchHere(Tail(items), s, i)
             ELSE /\ i < Len(s)
                  /\ AtomMatches(it.atom, s[i + 1])
                  /\ \/ MatchHere(Tail(items), s, i + 1)
                     \/ it.plus /\ MatchHere(items, s, i + 1)

\* (*Regexp).MatchString: an unanchored search
MatchString(re, s) ==
    \E k \in 1..Len(re) : \E i \in 0..Len(s) : MatchHere(re[k], s, i)

(***************************************************************************)
(* Rule validators.  The returned error is "none" for nil.                 *)
(***************************************************************************)
\* the comparison made with strings.EqualFold
checkAgainstConventionTypesFold(tType, conventionTypes) ==
    IF \E k \in 1..Len(conventionTypes) :
           /\ Len(tType) = Len(conventionTypes[k])
           /\ \A i \in 1..Len(tType) :
                  Fold(tType[i]) = Fold(conventionTypes[k][i])
    THEN "none"
    ELSE "TypeNotAllowed"

checkAgainstConventionTypes(tType, conventionTypes) ==
    IF \E k \in 1..Len(conventionTypes) : tType = conventionTypes[k]
    THEN "none"
    ELSE "TypeNotAllowed"

\* the loop of checkAgainstScopes from entry k on; "panic" is the panic of
\* regexp.MustCompile
RECURSIVE checkScopesFrom(_, _, _)
checkScopesFrom(tScope, scopes, k) ==
    IF k > Len(scopes)
    THEN "ScopeNotAllowed"
    ELSE LET src == scopes[k] \o <<"$">>
         IN  IF ~CompileOk(src)
             THEN "panic"
             ELSE IF MatchString(Compile(src), tScope)
             THEN "none"
             ELSE checkScopesFrom(tScope, scopes, k + 1)

\* an empty list accepted inside the validator
checkAgainstScopesEmptyAccepts(tScope, scopes) ==
    IF Len(scopes) = 0 THEN "none" ELSE checkScopesFrom(tScope, scopes, 1)

checkAgainstScopes(tScope, scopes) == checkScopesFrom(tScope, scopes, 1)

(***************************************************************************)
(* Configuration list parsers.                                             *)
(***************************************************************************)
defaultConventionTypes ==
    << <<"f","i","x">>, <<"f","e","a","t">>, <<"c","h","o","r","e">>,
       <<"d","o","c","s">>, <<"b","u","i","l","d">>, <<"c","i">>,
       <<"r","e","f","a","c","t","o","r">>, <<"p","e","r","f">>,
       <<"t","e","s","t">> >>

\* the loop followed by a removal of the empty elements
SplitAndTrimDropEmpty(input) ==
    LET parts == Split(input, ",")
    IN  SelectSeq([k \in 1..Len(parts) |-> TrimSpace(parts[k])],
                  LAMBDA x : x # <<>>)

\* types := strings.Split(input, ","); types[i] = strings.TrimSpace(types[i])
SplitAndTrim(input) ==
    LET parts == Split(input, ",")
    IN  [k \in 1..Len(parts) |-> TrimSpace(parts[k])]

\* the list helper the unit tests call: the split-and-trim loop on its own,
\* without the test for the empty input that its callers make
parseCommaSeparatedList(input) == SplitAndTrim(input)

\* parseTypes without the call of strings.TrimSpace
parseTypesNoTrim(input, fallback) ==
    IF input = <<>> THEN fallback ELSE Split(input, ",")

parseTypes(input, fallback) ==
    IF input = <<>> THEN fallback ELSE SplitAndTrim(input)

parseScopes(input) ==
    IF input = <<>> THEN <<>> ELSE SplitAndTrim(input)

(***************************************************************************)
(* The inputs of a run: the environment variables, and the event file at   *)
(* GITHUB_EVENT_PATH.                                                      *)
(***************************************************************************)
EventNames == {"pull_request", "pull_request_target", "push", ""}

\* INPUT_TYPES: "", "a,b", " a , B ", "fix,feat,chore", "a,"
TypesInputs ==
    { <<>>,
      <<"a", ",", "b">>,
      <<" ", "a", " ", ",", " ", "B", " ">>,
      <<"f","i","x", ",", "f","e","a","t", ",", "c","h","o","r","e">>,
      <<"a", ",">> }

\* INPUT_SCOPE: "", "a,b", "a,", "b.+", "+", "a|b"
ScopeInputs ==
    { <<>>,
      <<"a", ",", "b">>,
      <<"a", ",">>,
      <<"b", ".", "+">>,
      <<"+">>,
      <<"a", "|", "b">> }

\* the text of a title before its parenthetical
TitleHeads ==
    { <<>>, <<"a">>, <<"A">>, <<"b">>, <<" ", "a", " ">>, <<"c">>,
      <<"f","i","x">>, <<"f","e","a","t">> }

\* the parenthetical of a title and what follows it up to the separator
TitleParens ==
    { <<>>, <<"(", "a", ")">>, <<"(", "A", ")">>, <<"(", "c", "a", ")">>,
      <<"(", "a", "c", ")">>, <<"(", "b", "c", ")">>, <<"(", ")">>,
      <<"(", "a">>, <<"(", "a", ")", "!">>,
      <<"(", "a", ")", "(", "b", ")">> }

\* the separator and the message of a title
TitleTails ==
    { <<>>, <<":">>, <<":", " ", "m">>, <<":", "m", ":", "(", "b", ")">> }

RunTitles ==
    {h \o p \o t : h \in TitleHeads, p \in TitleParens, t \in TitleTails}

EventFiles ==
    {[kind |-> "unreadable"], [kind |-> "malformed"]}
        \cup {[kind |-> "json", title |-> t] : t \in RunTitles}

Environs ==
    [GITHUB_EVENT_NAME : EventNames,
     INPUT_TYPES       : TypesInputs,
     INPUT_SCOPE       : ScopeInputs,
     INPUT_SCOPES      : {<<>>, <<"a">>}]

NoCall == [fn |-> "none"]

(***************************************************************************)
(* main: one action per statement of its body.                             *)
(***************************************************************************)
Init ==
    /\ environ \in Environs
    /\ eventFile \in EventFiles
    /\ cfg = [GithubEventName |-> "", Types |-> <<>>, Scope |-> <<>>]
    /\ pc = "env.Parse"
    /\ title = <<>>
    /\ titleType = <<>>
    /\ titleScope = <<>>
    /\ titleMessage = <<>>
    /\ parsedTypes = <<>>
    /\ parsedScope = <<>>
    /\ typeErr = "unset"
    /\ scopeErr = "unset"
    /\ exit = "running"
    /\ log = <<>>
    /\ call = NoCall
    /\ ret = NoCall

\* env.Parse(&cfg) and the first logger.Info
ParseEnv ==
    /\ pc = "env.Parse"
    /\ cfg' = [GithubEventName |-> environ.GITHUB_EVENT_NAME,
               Types           |-> environ.INPUT_TYPES,
               Scope           |-> environ.INPUT_SCOPE]
    /\ log' = Append(log, "starting pull-request-title-validator")
    /\ pc' = "checkEvent"
    /\ UNCHANGED <<environ, eventFile, title, titleType, titleScope,
                   titleMessage, parsedTypes, parsedScope, typeErr, scopeErr,
                   exit, call, ret>>

\* the gate written for "pull_request" alone
CheckEventOnlyPullRequest ==
    /\ pc = "checkEvent"
    /\ IF cfg.GithubEventName # "pull_request"
       THEN /\ log' = Append(log, "invalid event type")
            /\ exit' = "1"
            /\ pc' = "exited"
       ELSE /\ pc' = "fetchTitle"
            /\ UNCHANGED <<log, exit>>
    /\ UNCHANGED <<environ, eventFile, cfg, title, titleType, titleScope,
                   titleMessage, parsedTypes, parsedScope, typeErr, scopeErr,
                   call, ret>>

CheckEvent ==
    /\ pc = "checkEvent"
    /\ IF cfg.GithubEventName # "pull_request"
          /\ cfg.GithubEventName # "pull_request_target"
       THEN /\ log' = Append(log, "invalid event type")
            /\ exit' = "1"
            /\ pc' = "exited"
       ELSE /\ pc' = "fetchTitle"
            /\ UNCHANGED <<log, exit>>
    /\ UNCHANGED <<environ, eventFile, cfg, title, titleType, titleScope,
                   titleMessage, parsedTypes, parsedScope, typeErr, scopeErr,
                   call, ret>>

\* title := fetchTitle(logger, cfg.GithubEventPath)
FetchTitle ==
    /\ pc = "fetchTitle"
    /\ IF eventFile.kind = "unreadable"
       THEN /\ log' = Append(log, "Problem reading the event JSON file")
            /\ exit' = "1"
            /\ pc' = "exited"
            /\ UNCHANGED title
       ELSE IF eventFile.kind = "malformed"
       THEN /\ log' = Append(log, "Failed to unmarshal JSON")
            /\ exit' = "1"
            /\ pc' = "exited"
            /\ UNCHANGED title
       ELSE /\ title' = eventFile.title
            /\ pc' = "splitTitle"
            /\ UNCHANGED <<log, exit>>
    /\ UNCHANGED <<environ, eventFile, cfg, titleType, titleScope,
                   titleMessage, parsedTypes, parsedScope, typeErr, scopeErr,
                   call, ret>>

\* titleType, titleScope, titleMessage := splitTitle(logger, title)
SplitTitle ==
    /\ pc = "splitTitle"
    /\ LET r == splitTitle(title)
       IN  IF r.err = "MissingSeparator"
           THEN /\ log' = Append(log, "Title must include a message after the colon")
                /\ exit' = "1"
                /\ pc' = "exited"
                /\ UNCHANGED <<titleType, titleScope, titleMessage>>
           ELSE IF r.err = "MissingType"
           THEN /\ log' = Append(log, "Title must include a type")
                /\ exit' = "1"
                /\ pc' = "exited"
                /\ UNCHANGED <<titleType, titleScope, titleMessage>>
           ELSE /\ titleType' = r.titleType
                /\ titleScope' = r.titleScope
                /\ titleMessage' = r.titleMessage
                /\ pc' = "parseTypes"
                /\ UNCHANGED <<log, exit>>
    /\ UNCHANGED <<environ, eventFile, cfg, title, parsedTypes, parsedScope,
                   typeErr, scopeErr, call, ret>>

\* parsedTypes := parseTypes(logger, cfg.Types, defaultConventionTypes)
ParseTypes ==
    /\ pc = "parseTypes"
    /\ parsedTypes' = parseTypes(cfg.Types, defaultConventionTypes)
    /\ log' = IF cfg.Types = <<>>
              THEN Append(log, "No custom list of commit types passed, using fallback.")
              ELSE log
    /\ pc' = "parseScopes"
    /\ UNCHANGED <<environ, eventFile, cfg, title, titleType, titleScope,
                   titleMessage, parsedScope, typeErr, scopeErr, exit,
                   call, ret>>

\* parsedScope := parseScopes(logger, cfg.Scope)
ParseScopes ==
    /\ pc = "parseScopes"
    /\ parsedScope' = parseScopes(cfg.Scope)
    /\ log' = IF cfg.Scope = <<>>
              THEN Append(log, "No custom list of commit scopes passed, using fallback.")
              ELSE log
    /\ pc' = "checkTypes"
    /\ UNCHANGED <<environ, eventFile, cfg, title, titleType, titleScope,
                   titleMessage, parsedTypes, typeErr, scopeErr, exit,
                   call, ret>>

\* the type check without os.Exit(1): the error is logged and main goes on
CheckTypesNoExit ==
    /\ pc = "checkTypes"
    /\ typeErr' = checkAgainstConventionTypes(titleType, parsedTypes)
    /\ log' = IF typeErr' # "none"
              THEN log \o <<"Type not allowed by the convention",
                             "error while checking the type against the allowed types">>
              ELSE log
    /\ pc' = "checkScopes"
    /\ UNCHANGED <<environ, eventFile, cfg, title, titleType, titleScope,
                   titleMessage, parsedTypes, parsedScope, scopeErr, exit,
                   call, ret>>

\* if err := checkAgainstConventionTypes(...); err != nil { ...; os.Exit(1) }
CheckTypes ==
    /\ pc = "checkTypes"
    /\ typeErr' = checkAgainstConventionTypes(titleType, parsedTypes)
    /\ IF typeErr' # "none"
       THEN /\ log' = log \o <<"Type not allowed by the convention",
                               "error while checking the type against the allowed types">>
            /\ exit' = "1"
            /\ pc' = "exited"
       ELSE /\ pc' = "checkScopes"
            /\ UNCHANGED <<log, exit>>
    /\ UNCHANGED <<environ, eventFile, cfg, title, titleType, titleScope,
                   titleMessage, parsedTypes, parsedScope, scopeErr,
                   call, ret>>

\* the scope check without the test of len(parsedScope)
CheckScopesNoBypass ==
    /\ pc = "checkScopes"
    /\ scopeErr' = checkAgainstScopes(titleScope, parsedScope)
    /\ IF scopeErr' = "panic"
       THEN /\ exit' = "2"
            /\ pc' = "exited"
            /\ UNCHANGED log
       ELSE IF scopeErr' # "none"
       THEN /\ log' = Append(log, "error while checking the scope against the allowed scopes")
            /\ exit' = "1"
            /\ pc' = "exited"
       ELSE /\ pc' = "validated"
            /\ UNCHANGED <<log, exit>>
    /\ UNCHANGED <<environ, eventFile, cfg, title, titleType, titleScope,
                   titleMessage, parsedTypes, parsedScope, typeErr,
                   call, ret>>

\* if err := checkAgainstScopes(...); err != nil && len(parsedScope) >= 1 {
\*     ...; os.Exit(1) }
\* a panic of regexp.MustCompile ends the process with status 2
CheckScopes ==
    /\ pc = "checkScopes"
    /\ scopeErr' = checkAgainstScopes(titleScope, parsedScope)
    /\ IF scopeErr' = "panic"
       THEN /\ exit' = "2"
            /\ pc' = "exited"
            /\ UNCHANGED log
       ELSE IF scopeErr' # "none" /\ Len(parsedScope) >= 1
       THEN /\ log' = Append(log, "error while checking the scope against the allowed scopes")
            /\ exit' = "1"
            /\ pc' = "exited"
       ELSE /\ pc' = "validated"
            /\ UNCHANGED <<log, exit>>
    /\ UNCHANGED <<environ, eventFile, cfg, title, titleType, titleScope,
                   titleMessage, parsedTypes, parsedScope, typeErr,
                   call, ret>>

\* the two closing logger.Info calls and the return of main
Validated ==
    /\ pc = "validated"
    /\ log' = log \o <<"commit title validated successfully",
                       "the commit message adheres to the configured standard">>
    /\ exit' = "0"
    /\ pc' = "exited"
    /\ UNCHANGED <<environ, eventFile, cfg, title, titleType, titleScope,
                   titleMessage, parsedTypes, parsedScope, typeErr, scopeErr,
                   call, ret>>

Next ==
    \/ ParseEnv
    \/ CheckEvent
    \/ FetchTitle
    \/ SplitTitle
    \/ ParseTypes
    \/ ParseScopes
    \/ CheckTypes
    \/ CheckScopes
    \/ Validated

Spec == Init /\ [][Next]_vars

(***************************************************************************)
(* Direct calls of the parser and of the validators, as the unit tests     *)
(* make them: call holds the function and its arguments, ret its result.   *)
(* The variables of main stay as they are before main starts.              *)
(***************************************************************************)
TitleAlphabet == {"a", "(", ")", ":", " "}

PrefixAlphabet == {"a", "b", "(", ")", " "}

TypeAlphabet == {"a", "A", "b"}

TypesInputAlphabet == {"a", "A", ",", " "}

ScopeAlphabet == {"A", "b", "c"}

ScopeInputAlphabet == {"a", "B", ",", "|", ".", "+"}

\* the allow-lists parseTypes returns, and the empty list
TypeLists ==
    {parseTypes(in, defaultConventionTypes) :
        in \in Str(TypesInputAlphabet, MaxTypesInputLen)} \cup {<<>>}

\* the pattern lists parseScopes returns (the empty list for the empty input)
ScopeLists ==
    {parseScopes(in) : in \in Str(ScopeInputAlphabet, MaxScopeInputLen)}

NotStarted ==
    /\ environ = [GITHUB_EVENT_NAME |-> "", INPUT_TYPES |-> <<>>,
                  INPUT_SCOPE |-> <<>>, INPUT_SCOPES |-> <<>>]
    /\ eventFile = [kind |-> "unreadable"]
    /\ cfg = [GithubEventName |-> "", Types |-> <<>>, Scope |-> <<>>]
    /\ pc = "not started"
    /\ title = <<>>
    /\ titleType = <<>>
    /\ titleScope = <<>>
    /\ titleMessage = <<>>
    /\ parsedTypes = <<>>
    /\ parsedScope = <<>>
    /\ typeErr = "unset"
    /\ scopeErr = "unset"
    /\ exit = "running"
    /\ log = <<>>

InitParse ==
    /\ NotStarted
    /\ call \in {[fn |-> "splitTitle", title |-> t] :
                    t \in Str(TitleAlphabet, MaxTitleLen)}
            \cup {[fn |-> "extractTypeAndScope", prefix |-> p] :
                    p \in Str(PrefixAlphabet, MaxPrefixLen)}
    /\ ret = NoCall

CallSplitTitle ==
    /\ call.fn = "splitTitle"
    /\ ret = NoCall
    /\ ret' = splitTitle(call.title)
    /\ UNCHANGED <<mainVars, call>>

CallExtractTypeAndScope ==
    /\ call.fn = "extractTypeAndScope"
    /\ ret = NoCall
    /\ ret' = extractTypeAndScope(call.prefix)
    /\ UNCHANGED <<mainVars, call>>

NextParse == CallSplitTitle \/ CallExtractTypeAndScope

SpecParse == InitParse /\ [][NextParse]_vars

InitTypes ==
    /\ NotStarted
    /\ call \in {[fn |-> "checkAgainstConventionTypes", titleType |-> t,
                  conventionTypes |-> l] :
                    t \in Str(TypeAlphabet, MaxTypeLen), l \in TypeLists}
    /\ ret = NoCall

CallCheckAgainstConventionTypes ==
    /\ call.fn = "checkAgainstConventionTypes"
    /\ ret = NoCall
    /\ ret' = [err |-> checkAgainstConventionTypes(call.titleType,
                                                   call.conventionTypes)]
    /\ UNCHANGED <<mainVars, call>>

NextTypes == CallCheckAgainstConventionTypes

SpecTypes == InitTypes /\ [][NextTypes]_vars

InitScopes ==
    /\ NotStarted
    /\ call \in {[fn |-> "checkAgainstScopes", titleScope |-> s,
                  scopes |-> l] :
                    s \in Str(ScopeAlphabet, MaxScopeLen), l \in ScopeLists}
    /\ ret = NoCall

CallCheckAgainstScopes ==
    /\ call.fn = "checkAgainstScopes"
    /\ ret = NoCall
    /\ ret' = [err |-> checkAgainstScopes(call.titleScope, call.scopes)]
    /\ UNCHANGED <<mainVars, call>>

NextScopes == CallCheckAgainstScopes

SpecScopes == InitScopes /\ [][NextScopes]_vars

ListInputAlphabet == {"a", "b", ",", " "}

InitList ==
    /\ NotStarted
    /\ call \in {[fn |-> f, input |-> in] :
                    f \in {"parseCommaSeparatedList", "parseTypes"},
                    in \in Str(ListInputAlphabet, MaxListInputLen)}
    /\ ret = NoCall

CallParseCommaSeparatedList ==
    /\ call.fn = "parseCommaSeparatedList"
    /\ ret = NoCall
    /\ ret' = [list |-> parseCommaSeparatedList(call.input)]
    /\ UNCHANGED <<mainVars, call>>

CallParseTypes ==
    /\ call.fn = "parseTypes"
    /\ ret = NoCall
    /\ ret' = [list |-> parseTypes(call.input, defaultConventionTypes)]
    /\ UNCHANGED <<mainVars, call>>

NextList == CallParseCommaSeparatedList \/ CallParseTypes

SpecList == InitList /\ [][NextList]_vars

(***************************************************************************)
(* Vocabulary of the properties, stated on the characters of the strings.  *)
(***************************************************************************)
HasChar(s, c) == \E i \in 1..Len(s) : s[i] = c

\* x is y without its leading and trailing spaces
IsTrimOf(x, y) ==
    /\ x = <<>> \/ (x[1] # " " /\ x[Len(x)] # " ")
    /\ \E a \in 0..Len(y) : \E b \in 0..(Len(y) - a) :
          /\ \A i \in 1..a : y[i] = " "
          /\ \A i \in (Len(y) - b + 1)..Len(y) : y[i] = " "
          /\ x = SubSeq(y, a + 1, Len(y) - b)

\* the text of t before its first ":" (t contains one)
BeforeFirstColon(t) ==
    LET i == CHOOSE k \in 1..Len(t) :
                 t[k] = ":" /\ \A j \in 1..(k - 1) : t[j] # ":"
    IN  SubSeq(t, 1, i - 1)

\* the text of t after its first ":" (t contains one)
AfterFirstColon(t) ==
    LET i == CHOOSE k \in 1..Len(t) :
                 t[k] = ":" /\ \A j \in 1..(k - 1) : t[j] # ":"
    IN  SubSeq(t, i + 1, Len(t))

\* s[k] is a "(" that one or more characters other than ")" and then the
\* ")" at s[j] follow
Parenthetical(s, k, j) ==
    /\ k \in 1..Len(s) /\ j \in 1..Len(s)
    /\ s[k] = "(" /\ s[j] = ")" /\ j > k + 1
    /\ \A m \in (k + 1)..(j - 1) : s[m] # ")"

HasParenthetical(s) ==
    \E k \in 1..Len(s) : \E j \in 1..Len(s) : Parenthetical(s, k, j)

\* the text of s before its first "(" (s contains one)
BeforeFirstParen(s) ==
    LET k == CHOOSE m \in 1..Len(s) :
                 s[m] = "(" /\ \A n \in 1..(m - 1) : s[n] # "("
    IN  SubSeq(s, 1, k - 1)

SplitTitleReturned == call.fn = "splitTitle" /\ ret # NoCall

ExtractReturned == call.fn = "extractTypeAndScope" /\ ret # NoCall

(***************************************************************************)
(* C2: a title without ":" (with or without parentheses, the empty title   *)
(* too) fails to parse with MissingSeparator and yields no components.     *)
(***************************************************************************)
C2_NoColonIsMissingSeparator ==
    (SplitTitleReturned /\ ~HasChar(call.title, ":"))
        => ret = [err |-> "MissingSeparator"]

C2_Witness ==
    /\ SplitTitleReturned
    /\ ~HasChar(call.title, ":")
    /\ HasChar(call.title, "(") /\ HasChar(call.title, ")")
    /\ ret = [err |-> "MissingSeparator"]

\* the first character of s that is not a space is the "(" of a parenthetical
StartsWithParenthetical(s) ==
    \E k \in 1..Len(s) : \E j \in 1..Len(s) :
        Parenthetical(s, k, j) /\ \A m \in 1..(k - 1) : s[m] = " "

(***************************************************************************)
(* C3: a successful parse has a non-empty type; a title whose prefix is    *)
(* empty, only whitespace, or starts with the parenthetical fails with     *)
(* MissingType.                                                            *)
(***************************************************************************)
C3_TypeNeverEmpty ==
    SplitTitleReturned =>
        /\ ret.err = "none" => ret.titleType # <<>>
        /\ (/\ HasChar(call.title, ":")
            /\ LET p == BeforeFirstColon(call.title)
               IN  \/ \A i \in 1..Len(p) : p[i] = " "
                   \/ StartsWithParenthetical(p))
              => ret = [err |-> "MissingType"]

C3_Witness ==
    /\ SplitTitleReturned
    /\ HasChar(call.title, ":")
    /\ StartsWithParenthetical(BeforeFirstColon(call.title))
    /\ ret = [err |-> "MissingType"]

IsTrimmed(s) == s = <<>> \/ (s[1] # " " /\ s[Len(s)] # " ")

(***************************************************************************)
(* C4 as stated: for every trimmed prefix containing both "(" and ")", the *)
(* type is the trimmed text before the first "(" and the scope is the text *)
(* between the first "(" and the first ")" after it.                       *)
(***************************************************************************)
C4_FirstParenAlwaysSplits ==
    (/\ ExtractReturned
     /\ IsTrimmed(call.prefix)
     /\ HasChar(call.prefix, "(") /\ HasChar(call.prefix, ")"))
        => /\ IsTrimOf(ret.titleType, BeforeFirstParen(call.prefix))
           /\ \A j \in 1..Len(call.prefix) :
                 (/\ j > Len(BeforeFirstParen(call.prefix)) + 1
                  /\ call.prefix[j] = ")"
                  /\ \A m \in (Len(BeforeFirstParen(call.prefix)) + 2)..(j - 1) :
                        call.prefix[m] # ")")
                    => ret.titleScope =
                         SubSeq(call.prefix,
                                Len(BeforeFirstParen(call.prefix)) + 2, j - 1)

(***************************************************************************)
(* C4 amended: when the trimmed prefix contains a "(" followed by one or   *)
(* more characters other than ")" and then ")", the scope is the text      *)
(* between the leftmost such "(" and the first ")" after it, and the type  *)
(* is the trimmed text before the first "(" of the prefix; every other     *)
(* prefix containing both "(" and ")" is returned whole as the type, with  *)
(* the empty scope.                                                        *)
(***************************************************************************)
C4_ParentheticalSplits ==
    (/\ ExtractReturned
     /\ IsTrimmed(call.prefix)
     /\ HasChar(call.prefix, "(") /\ HasChar(call.prefix, ")"))
        => IF HasParenthetical(call.prefix)
           THEN /\ IsTrimOf(ret.titleType, BeforeFirstParen(call.prefix))
                /\ \E k \in 1..Len(call.prefix) : \E j \in 1..Len(call.prefix) :
                      /\ Parenthetical(call.prefix, k, j)
                      /\ \A m \in 1..(k - 1) : \A n \in 1..Len(call.prefix) :
                            ~Parenthetical(call.prefix, m, n)
                      /\ ret.titleScope = SubSeq(call.prefix, k + 1, j - 1)
           ELSE ret = [titleType |-> call.prefix, titleScope |-> <<>>]

\* a prefix whose first "(" is closed at once and whose scope comes from a
\* later parenthetical
C4_Witness ==
    /\ ExtractReturned
    /\ IsTrimmed(call.prefix)
    /\ HasChar(call.prefix, "(")
    /\ Len(BeforeFirstParen(call.prefix)) + 2 <= Len(call.prefix)
    /\ call.prefix[Len(BeforeFirstParen(call.prefix)) + 2] = ")"
    /\ ret.titleScope # <<>>
    /\ ret.titleType # <<>>

(***************************************************************************)
(* C5: a prefix that lacks "(" or lacks ")" is returned whole (trimmed,    *)
(* any "(" and the text after it kept) as the type, with the empty scope.  *)
(***************************************************************************)
C5_NoParentheticalWholePrefix ==
    (/\ ExtractReturned
     /\ ~HasChar(call.prefix, "(") \/ ~HasChar(call.prefix, ")"))
        => /\ IsTrimOf(ret.titleType, call.prefix)
           /\ ret.titleScope = <<>>

C5_Witness ==
    /\ ExtractReturned
    /\ HasChar(call.prefix, "(") /\ ~HasChar(call.prefix, ")")
    /\ HasChar(ret.titleType, "(")
    /\ Len(ret.titleType) < Len(call.prefix)
    /\ ret.titleScope = <<>>

(***************************************************************************)
(* C6: only the first ":" separates: the type and the scope come from the  *)
(* text before the first ":" alone, and the message is all the text after  *)
(* the first ":", trimmed, further colons and parentheses included.        *)
(***************************************************************************)
C6_FirstColonSeparates ==
    (SplitTitleReturned /\ HasChar(call.title, ":"))
        => LET before == BeforeFirstColon(call.title)
               after  == AfterFirstColon(call.title)
               alone  == splitTitle(before \o <<":">>)
           IN  /\ ret.err = alone.err
               /\ ret.err = "none" =>
                     /\ ret.titleType = alone.titleType
                     /\ ret.titleScope = alone.titleScope
                     /\ ~HasChar(ret.titleType, ":")
                     /\ ~HasChar(ret.titleScope, ":")
                     /\ IsTrimOf(ret.titleMessage, after)

C6_Witness ==
    /\ SplitTitleReturned
    /\ ret.err = "none"
    /\ ret.titleScope = <<>>
    /\ HasChar(ret.titleMessage, ":")
    /\ HasChar(ret.titleMessage, "(") /\ HasChar(ret.titleMessage, ")")

SameString(x, y) == Len(x) = Len(y) /\ \A i \in 1..Len(x) : x[i] = y[i]

SameLetters(x, y) ==
    Len(x) = Len(y) /\ \A i \in 1..Len(x) : Fold(x[i]) = Fold(y[i])

CheckTypesReturned == call.fn = "checkAgainstConventionTypes" /\ ret # NoCall

(***************************************************************************)
(* C7: validateType succeeds exactly when the type equals an entry of the  *)
(* allow-list character for character; a type that matches entries only    *)
(* up to letter case is rejected with TypeNotAllowed.                      *)
(***************************************************************************)
C7_TypeExactMatch ==
    CheckTypesReturned =>
        /\ ret.err \in {"none", "TypeNotAllowed"}
        /\ ret.err = "none" <=>
              \E k \in 1..Len(call.conventionTypes) :
                  SameString(call.titleType, call.conventionTypes[k])

C7_Witness ==
    /\ CheckTypesReturned
    /\ ret.err = "TypeNotAllowed"
    /\ call.titleType # <<>>
    /\ \E k \in 1..Len(call.conventionTypes) :
          SameLetters(call.titleType, call.conventionTypes[k])

\* the whole of s is matched by the pattern, letter case ignored
PatternMatchesAll(pattern, s) ==
    LET re == Compile(pattern)
    IN  \E k \in 1..Len(re) :
            MatchHere(re[k] \o <<[atom |-> "$", plus |-> FALSE]>>, s, 0)

PatternMatchesSuffix(pattern, s) ==
    \E j \in 0..Len(s) : PatternMatchesAll(pattern, SubSeq(s, j + 1, Len(s)))

WellFormed(pattern) ==
    \A i \in 1..Len(pattern) :
        pattern[i] = "+" =>
            (i > 1 /\ pattern[i - 1] # "+" /\ pattern[i - 1] # "|")

CheckScopesReturned == call.fn = "checkAgainstScopes" /\ ret # NoCall

(***************************************************************************)
(* C8: validateScope succeeds exactly when, for some pattern of the list,  *)
(* a trailing substring of the scope is matched by the pattern, letter     *)
(* case ignored.  Stated for lists of well-formed patterns.                *)
(***************************************************************************)
C8_ScopeSuffixMatch ==
    (/\ CheckScopesReturned
     /\ \A k \in 1..Len(call.scopes) : WellFormed(call.scopes[k]))
        => /\ ret.err \in {"none", "ScopeNotAllowed"}
           /\ ret.err = "none" <=>
                 \E k \in 1..Len(call.scopes) :
                     PatternMatchesSuffix(call.scopes[k], call.titleScope)

(***************************************************************************)
(* C9: validateScope of the empty scope fails with ScopeNotAllowed for     *)
(* every non-empty list of well-formed patterns that parseScopes returns,  *)
(* a list with an empty pattern included.                                  *)
(***************************************************************************)
C9_EmptyScopeRejected ==
    (/\ CheckScopesReturned
     /\ Len(call.scopes) >= 1
     /\ \A k \in 1..Len(call.scopes) : WellFormed(call.scopes[k])
     /\ call.titleScope = <<>>)
        => ret.err = "ScopeNotAllowed"

(***************************************************************************)
(* C10: validateScope with an empty pattern list returns ScopeNotAllowed   *)
(* for every scope, the empty one too; only main lifts the restriction: it *)
(* ignores that error when the list has no entries, and never otherwise.   *)
(***************************************************************************)
C10_EmptyListBypassInCaller ==
    scopeErr # "unset" =>
        /\ Len(parsedScope) = 0 =>
              /\ scopeErr = "ScopeNotAllowed"
              /\ exit \in {"running", "0"}
        /\ (Len(parsedScope) >= 1 /\ scopeErr = "ScopeNotAllowed") =>
              exit = "1"

C10_Witness ==
    /\ pc = "exited"
    /\ exit = "0"
    /\ Len(parsedScope) = 0
    /\ titleScope # <<>>
    /\ scopeErr = "ScopeNotAllowed"

ExpectedVerdict ==
    LET parsed == splitTitle(eventFile.title)
        types  == parseTypes(environ.INPUT_TYPES, defaultConventionTypes)
        scopes == parseScopes(environ.INPUT_SCOPE)
    IN  /\ environ.GITHUB_EVENT_NAME \in {"pull_request", "pull_request_target"}
        /\ parsed.err = "none"
        /\ checkAgainstConventionTypes(parsed.titleType, types) = "none"
        /\ \/ Len(scopes) = 0
           \/ checkAgainstScopes(parsed.titleScope, scopes) = "none"

(***************************************************************************)
(* C1: a run whose event file holds a title ends in success exactly when   *)
(* the event kind is accepted, the title parses, the parsed type passes    *)
(* the type check, and the configured pattern list is empty or the parsed  *)
(* scope passes the scope check.                                           *)
(***************************************************************************)
C1_OverallVerdict ==
    (pc = "exited" /\ eventFile.kind = "json")
        => /\ exit \in {"0", "1", "2"}
           /\ exit = "0" <=> ExpectedVerdict

\* a title with a scope no pattern would accept passes under an empty list
C1_Witness ==
    /\ pc = "exited"
    /\ exit = "0"
    /\ titleScope = <<"b", "c">>
    /\ Len(parsedScope) = 0
    /\ ExpectedVerdict

\* the number of "," among the first i characters of s
CommasUpTo(s, i) == Cardinality({j \in 1..i : s[j] = ","})

\* the position of the k-th "," of s; 0 for k = 0, Len(s) + 1 past the last
CommaAt(s, k) ==
    IF k = 0
    THEN 0
    ELSE IF k > CommasUpTo(s, Len(s))
    THEN Len(s) + 1
    ELSE CHOOSE i \in 1..Len(s) : s[i] = "," /\ CommasUpTo(s, i) = k

\* the k-th comma-delimited segment of s
Segment(s, k) == SubSeq(s, CommaAt(s, k - 1) + 1, CommaAt(s, k) - 1)

ListReturned == call.fn = "parseCommaSeparatedList" /\ ret # NoCall

ParseTypesReturned == call.fn = "parseTypes" /\ ret # NoCall

C15_NoEmptyTypeEntry ==
    (ParseTypesReturned /\ call.input # <<>>)
        => \A k \in 1..Len(ret.list) : ret.list[k] # <<>>

(***************************************************************************)
(* C15 amended: every entry of the allow-list parseTypes returns for a     *)
(* non-empty input has no leading or trailing whitespace and no ",", and   *)
(* the entry is empty exactly when its comma-delimited segment of the      *)
(* input is empty or only whitespace (trailing comma, consecutive commas,  *)
(* whitespace-only input).                                                 *)
(***************************************************************************)
C15_TypeEntriesTrimmed ==
    (ParseTypesReturned /\ call.input # <<>>)
        => \A k \in 1..Len(ret.list) :
              /\ ret.list[k] = <<>> \/
                    (ret.list[k][1] # " " /\ ret.list[k][Len(ret.list[k])] # " ")
              /\ ~HasChar(ret.list[k], ",")
              /\ ret.list[k] = <<>> <=>
                    \A i \in 1..Len(Segment(call.input, k)) :
                        Segment(call.input, k)[i] = " "

\* a padded entry next to an entry that is only whitespace
C15_Witness ==
    /\ ParseTypesReturned
    /\ call.input # <<>>
    /\ HasChar(call.input, " ")
    /\ \E k \in 1..Len(ret.list) : ret.list[k] = <<>>
    /\ \E k \in 1..Len(ret.list) :
          ret.list[k] # <<>> /\ Len(ret.list[k]) < Len(Segment(call.input, k))

\* the built-in allow-list, written out
BuiltInTypes ==
    << <<"f","i","x">>, <<"f","e","a","t">>, <<"c","h","o","r","e">>,
       <<"d","o","c","s">>, <<"b","u","i","l","d">>, <<"c","i">>,
       <<"r","e","f","a","c","t","o","r">>, <<"p","e","r","f">>,
       <<"t","e","s","t">> >>

\* main has parsed both lists
ListsParsed == pc \in {"checkTypes", "checkScopes", "validated"} \/ typeErr # "unset"

(***************************************************************************)
(* C12: with INPUT_TYPES empty the allow-list is the built-in list, in its *)
(* order; with INPUT_SCOPES empty the pattern list is empty; with          *)
(* INPUT_SCOPES non-empty the pattern list is its comma-separated entries, *)
(* and a run that succeeds has a scope one of them accepts.                *)
(***************************************************************************)
C12_ConfigurationDefaults ==
    ListsParsed =>
        /\ environ.INPUT_TYPES = <<>> => parsedTypes = BuiltInTypes
        /\ environ.INPUT_SCOPES = <<>> => parsedScope = <<>>
        /\ environ.INPUT_SCOPES # <<>> =>
              /\ Len(parsedScope) =
                    CommasUpTo(environ.INPUT_SCOPES, Len(environ.INPUT_SCOPES)) + 1
              /\ \A k \in 1..Len(parsedScope) :
                    IsTrimOf(parsedScope[k], Segment(environ.INPUT_SCOPES, k))
              /\ exit = "0" => scopeErr = "none"

Accepted ==
    environ.GITHUB_EVENT_NAME \in {"pull_request", "pull_request_target"}

(***************************************************************************)
(* C13: a run whose event kind is neither "pull_request" nor               *)
(* "pull_request_target" fails at the gate: it ends with status 1 without  *)
(* reading the event file and without parsing or validating a title; with  *)
(* an accepted kind the gate passes the run on to the reading of the event *)
(* file and never reports an invalid event.                                *)
(***************************************************************************)
C13_EventGate ==
    /\ [](~Accepted =>
            /\ pc \in {"env.Parse", "checkEvent", "exited"}
            /\ title = <<>> /\ titleType = <<>> /\ titleScope = <<>>
            /\ parsedTypes = <<>> /\ parsedScope = <<>>
            /\ typeErr = "unset" /\ scopeErr = "unset"
            /\ pc = "exited" =>
                  /\ exit = "1"
                  /\ log = <<"starting pull-request-title-validator",
                             "invalid event type">>)
    /\ [](Accepted => \A i \in 1..Len(log) : log[i] # "invalid event type")
    /\ [][(pc = "checkEvent" /\ Accepted) =>
              (pc' = "fetchTitle" /\ exit' = "running" /\ log' = log)]_vars

C13_Witness ==
    /\ ~Accepted
    /\ eventFile.kind = "json"
    /\ HasChar(eventFile.title, ":")
    /\ pc = "exited"
    /\ exit = "1"
    /\ title = <<>>

StageRank(p) ==
    CASE p = "env.Parse"   -> 0
      [] p = "checkEvent"  -> 1
      [] p = "fetchTitle"  -> 2
      [] p = "splitTitle"  -> 3
      [] p = "parseTypes"  -> 4
      [] p = "parseScopes" -> 5
      [] p = "checkTypes"  -> 6
      [] p = "checkScopes" -> 7
      [] p = "validated"   -> 8
      [] p = "exited"      -> 9

ErrorMessages ==
    {"invalid event type", "Problem reading the event JSON file",
     "Failed to unmarshal JSON",
     "Title must include a message after the colon",
     "Title must include a type",
     "error while checking the type against the allowed types",
     "error while checking the scope against the allowed scopes"}

(***************************************************************************)
(* C14: the stages run at most once each and in the order event-kind       *)
(* check, payload read, title parse, type validation, scope validation;    *)
(* a stage that reports an error ends the run at once with a failure       *)
(* status, and nothing runs after the end.  A title that fails to parse    *)
(* reaches neither validation, and a title whose type and scope are both   *)
(* disallowed is reported as TypeNotAllowed, the scope never being         *)
(* checked.                                                                *)
(***************************************************************************)
C14_StageOrder ==
    /\ [][/\ pc # "exited"
          /\ pc' = "exited" \/ StageRank(pc') = StageRank(pc) + 1
          /\ exit' # "running" <=> pc' = "exited"
          /\ (\E i \in 1..Len(log') : i > Len(log) /\ log'[i] \in ErrorMessages)
                => (pc' = "exited" /\ exit' = "1")
          /\ (typeErr' = "TypeNotAllowed" \/ scopeErr' = "panic"
                \/ (scopeErr' = "ScopeNotAllowed" /\ Len(parsedScope') >= 1))
                => (pc' = "exited" /\ exit' \in {"1", "2"})]_vars
    /\ []((eventFile.kind = "json" /\ ~HasChar(eventFile.title, ":"))
             => (/\ StageRank(pc) <= 3 \/ pc = "exited"
                 /\ typeErr = "unset" /\ scopeErr = "unset"))
    /\ [](typeErr # "unset" => title = eventFile.title /\ titleType # <<>>)
    /\ [](typeErr = "TypeNotAllowed" =>
             /\ scopeErr = "unset"
             /\ pc = "exited" /\ exit = "1"
             /\ log[Len(log)] =
                   "error while checking the type against the allowed types")

\* the type and the scope are both disallowed
C14_Witness ==
    /\ pc = "exited"
    /\ exit = "1"
    /\ typeErr = "TypeNotAllowed"
    /\ Len(parsedScope) >= 1
    /\ \A k \in 1..Len(parsedScope) :
          WellFormed(parsedScope[k])
            /\ ~PatternMatchesSuffix(parsedScope[k], titleScope)
    /\ scopeErr = "unset"

\* the verdict of a run on title t under the configuration of this run
VerdictOf(t) ==
    LET parsed == splitTitle(t)
        types  == parseTypes(environ.INPUT_TYPES, defaultConventionTypes)
        scopes == parseScopes(environ.INPUT_SCOPE)
    IN  /\ Accepted
        /\ parsed.err = "none"
        /\ checkAgainstConventionTypes(parsed.titleType, types) = "none"
        /\ \/ Len(scopes) = 0
           \/ checkAgainstScopes(parsed.titleScope, scopes) = "none"

\* t reads type "(" scope ")" extra ":" message: its first "(" opens a
\* non-empty parenthetical that closes at j, before the first ":" at c
TypeScopeExtra(t, j, c) ==
    /\ j \in 1..Len(t) /\ c \in 1..Len(t) /\ j < c
    /\ t[c] = ":" /\ \A i \in 1..(c - 1) : t[i] # ":"
    /\ \E k \in 1..(j - 2) :
          /\ t[k] = "(" /\ \A i \in 1..(k - 1) : t[i] # "(" /\ t[i] # ")"
          /\ t[j] = ")" /\ \A i \in (k + 1)..(j - 1) : t[i] # ")"

\* t without the text between the ")" at j and the ":" at c
WithoutExtra(t, j, c) == SubSeq(t, 1, j) \o SubSeq(t, c, Len(t))

(***************************************************************************)
(* C16: text between the ")" of a non-empty parenthetical and the first    *)
(* ":" changes nothing: a run on "t(s)x: m" ends with the verdict of a run *)
(* on "t(s): m", and with the same type, scope and message when the title  *)
(* parses.                                                                 *)
(***************************************************************************)
C16_ExtraTextIgnored ==
    (pc = "exited" /\ eventFile.kind = "json") =>
        \A j \in 1..Len(eventFile.title) : \A c \in 1..Len(eventFile.title) :
            TypeScopeExtra(eventFile.title, j, c) =>
                LET plain == splitTitle(WithoutExtra(eventFile.title, j, c))
                IN  /\ exit = "0" <=> VerdictOf(WithoutExtra(eventFile.title, j, c))
                    /\ (Accepted /\ plain.err = "none") =>
                          /\ titleType = plain.titleType
                          /\ titleScope = plain.titleScope
                          /\ titleMessage = plain.titleMessage
                    /\ (Accepted /\ plain.err # "none") =>
                          (exit = "1" /\ typeErr = "unset")

\* a run that passes on a title with text after the parenthetical
C16_Witness ==
    /\ pc = "exited"
    /\ exit = "0"
    /\ Len(parsedScope) >= 1
    /\ \E j \in 1..Len(title) : \E c \in 1..Len(title) :
          TypeScopeExtra(title, j, c) /\ c > j + 1

====
